---- MODULE Spec2Model ----
(***************************************************************************)
(* EdDSA over the bn256 twisted Edwards curve                              *)
(* (crypto/signature/eddsa/bn256/eddsa.go): New, Sign and Verify, the      *)
(* shared hash handle inside PublicKey, and the field-element              *)
(* representations that cross the three functions.                         *)
(*                                                                         *)
(* The arithmetic is kept, the sizes are scaled down so that the state     *)
(* space is finite: a digest half is HalfLen bytes (32 in the source), a   *)
(* field element has one limb of 8*HalfLen bits (4 limbs of 64 bits in the *)
(* source), and the curve is a twisted Edwards curve over F_97 with a      *)
(* prime-order subgroup of order 13 and cofactor 8 (the source's curve has *)
(* a 254-bit modulus, a 251-bit subgroup order and cofactor 8).  As in the *)
(* source, the modulus is below 2^(8*HalfLen-2), so every clamped scalar   *)
(* exceeds it, the modulus is 1 mod 8, and Modulus # Cofactor*Order.       *)
(*                                                                         *)
(* An fr.Element is modelled by its raw limb value: the Montgomery image   *)
(* v*MontR mod Modulus of the value v it stands for when it is in          *)
(* Montgomery form, v itself when it is in regular form.  Point            *)
(* coordinates are kept as values; Raw() gives their limbs.                *)
(***************************************************************************)
EXTENDS Integers, Sequences, FiniteSets, TLC

\* ---- bounds of the exploration -----------------------------------------
MaxSigned == 1      \* distinct (key pair, message) pairs signed in one history
MaxSeed  == 1       \* seeds are <<s, 2>>, s \in 0..MaxSeed
MaxMsg   == 1       \* messages are the elements with raw limb 0..MaxMsg
MaxRounds == 1      \* calls that one concurrent caller makes

NumProcs == 2       \* concurrent callers

\* ---- scaled sizes -------------------------------------------------------
HalfLen  == 2       \* bytes in half a Sum512 digest

\* ---- curve and field parameters (GetCurveParams) ------------------------
Modulus  == 97
CurveA   == 96
CurveD   == 7
Order    == 13
Cofactor == 8
Base     == <<1, 41>>

\* square-and-multiply
PowStep(root, b, bit, m) ==
    IF bit = 1 THEN (((root * root) % m) * b) % m ELSE (root * root) % m

RECURSIVE Pow(_, _, _)
Pow(b, e, m) ==
    IF e = 0 THEN 1 % m ELSE PowStep(Pow(b, e \div 2, m), b, e % 2, m)

\* Montgomery constant of a one-limb element
MontR    == Pow(256, HalfLen, Modulus)
MontRInv == Pow(MontR, Modulus - 2, Modulus)

\* ---- bytes and integers -------------------------------------------------
\* big.Int.SetBytes: big-endian bytes to integer
RECURSIVE SetBytes(_)
SetBytes(bs) ==
    IF bs = <<>> THEN 0
    ELSE SetBytes(SubSeq(bs, 1, Len(bs) - 1)) * 256 + bs[Len(bs)]

\* big-endian encoding of n on k bytes
RECURSIVE PutBytes(_, _)
PutBytes(n, k) ==
    IF k = 0 THEN <<>> ELSE Append(PutBytes(n \div 256, k - 1), n % 256)

\* little-endian bytes to integer
RECURSIVE LittleEndian(_)
LittleEndian(bs) ==
    IF bs = <<>> THEN 0 ELSE Head(bs) + 256 * LittleEndian(Tail(bs))

\* ---- fr.Element ---------------------------------------------------------
\* SetBigInt: reduce modulo the field modulus, store in Montgomery form
SetBigInt(v)       == ((v % Modulus) * MontR) % Modulus
\* FromMont: Montgomery form to regular form
FromMont(raw)      == (raw * MontRInv) % Modulus
\* ToBigInt: the limbs as they are
ToBigInt(raw)      == raw
\* ToBigIntRegular: FromMont, then the limbs
ToBigIntRegular(raw) == ToBigInt(FromMont(raw))
\* limbs of the element holding the value v in Montgomery form
Raw(v)             == (v * MontR) % Modulus
\* Element.Bytes and binary.Write of an element: the limbs, big-endian
ElemBytes(raw)     == PutBytes(raw, HalfLen)
BinaryWrite(raw)   == PutBytes(raw, HalfLen)

\* ---- twistededwards.Point ----------------------------------------------
\* fr.Element.Inverse: x^(Modulus-2), which is 0 for x = 0
InverseTable == [x \in 0..(Modulus - 1) |-> Pow(x, Modulus - 2, Modulus)]
Inverse(x)   == InverseTable[x % Modulus]

IsOnCurve(P) ==
    LET xx == (P[1] * P[1]) % Modulus
        yy == (P[2] * P[2]) % Modulus
    IN  (CurveA * xx + yy) % Modulus = (1 + ((CurveD * xx) % Modulus) * yy) % Modulus

Add(P, Q) ==
    LET xv    == (P[1] * Q[2]) % Modulus
        yu    == (P[2] * Q[1]) % Modulus
        xu    == (((P[1] * Q[1]) % Modulus) * CurveA) % Modulus
        yv    == (P[2] * Q[2]) % Modulus
        dxyuv == (((xv * yu) % Modulus) * CurveD) % Modulus
        denx  == (1 + dxyuv) % Modulus
        deny  == (1 - dxyuv) % Modulus
    IN  << ((xv + yu) * Inverse(denx)) % Modulus,
           ((yv - xu) * Inverse(deny)) % Modulus >>

\* double-and-add from the most significant bit, starting at (0, 1)
DoubleAdd(acc, P, bit) ==
    IF bit = 1 THEN Add(Add(acc, acc), P) ELSE Add(acc, acc)

\* (the accumulator is bound through a one-element set, so that it is a
\* value before the next step starts)
RECURSIVE ScalarMul(_, _)
ScalarMul(P, k) ==
    IF k = 0 THEN <<0, 1>>
    ELSE CHOOSE r \in { DoubleAdd(acc, P, k % 2) : acc \in {ScalarMul(P, k \div 2)} } : TRUE

\* ---- blake2b.Sum512 ------------------------------------------------------
\* A fixed public function from a byte string to 2*HalfLen bytes.
Mix(acc, b) == (acc * 167 + b + 13) % 65521

RECURSIVE Absorb512(_, _)
Absorb512(acc, bs) ==
    IF bs = <<>> THEN acc ELSE Absorb512(Mix(acc, Head(bs)), Tail(bs))

RECURSIVE Squeeze512(_, _)
Squeeze512(acc, n) ==
    IF n = 0 THEN <<>>
    ELSE <<Mix(acc, n) % 256>> \o Squeeze512(Mix(acc, n), n - 1)

Sum512(bs) == Squeeze512(Absorb512(4099, bs), 2 * HalfLen)

\* ---- hash.Hash (the handle the caller passes to New) --------------------
\* A handle is [hid |-> algorithm, buf |-> bytes absorbed since the last
\* Reset].  Sum does not change the handle.
HashIds == {1, 2}

\* a Reset that leaves the absorbed bytes in place
HashReset_Keep(h) == h

HashReset(h)     == [h EXCEPT !.buf = <<>>]
HashWrite(h, bs) == [h EXCEPT !.buf = @ \o bs]

RECURSIVE HashFold(_, _, _)
HashFold(hid, acc, bs) ==
    IF bs = <<>> THEN acc
    ELSE HashFold(hid, (acc * (29 + 2 * hid) + Head(bs) + 7) % 65521, Tail(bs))

HashSum(h) == PutBytes(HashFold(h.hid, 977 * h.hid, h.buf), HalfLen)

\* ---- errors and zero values --------------------------------------------
errNil        == "nil"
errNotOnCurve == "point not on curve"
errWrite      == "hash write error"

ZeroPoint     == <<0, 0>>
ZeroSignature == [R |-> ZeroPoint, S |-> 0]

\* ---- New ----------------------------------------------------------------
\* the masks of the pruning step, on one byte
And0xF8(b) == b - (b % 8)
And0x7F(b) == b % 128
Or0x40(b)  == IF (b \div 64) % 2 = 1 THEN b ELSE b + 64

\* for i, j := 0, HalfLen; i < j; i, j = i+1, j-1 { h[i], h[j] = h[j], h[i] }
\* (Go index i is sequence index i + 1)
RECURSIVE ReverseLoop(_, _, _)
ReverseLoop(h, i, j) ==
    IF i < j
    THEN ReverseLoop([h EXCEPT ![i + 1] = h[j + 1], ![j + 1] = h[i + 1]], i + 1, j - 1)
    ELSE h

\* the integer tmp that New decodes from the digest
NewTmp(seed) ==
    LET h0 == Sum512(seed)
        h1 == [h0 EXCEPT ![1] = And0xF8(@)]
        h2 == [h1 EXCEPT ![HalfLen] = And0x7F(@)]
        h3 == [h2 EXCEPT ![HalfLen] = Or0x40(@)]
        h4 == ReverseLoop(h3, 0, HalfLen)
    IN  SetBytes(SubSeq(h4, 1, HalfLen))

\* New(seed, hFunc): pub.HFunc refers to the caller's handle, which the
\* model keeps in the variable hfunc.
New(seed) ==
    LET h0  == Sum512(seed)
        tmp == NewTmp(seed)
    IN  [ A       |-> ScalarMul(Base, tmp),
          randSrc |-> SubSeq(h0, HalfLen + 1, 2 * HalfLen),
          scalar  |-> FromMont(SetBigInt(tmp)) ]

\* ---- challenge hash, shared shape of Sign and Verify --------------------
\* data := []fr.Element{R.X, R.Y, A.X, A.Y, message}
ChallengeData(R, A, message) ==
    << Raw(R[1]), Raw(R[2]), Raw(A[1]), Raw(A[2]), message >>

\* The write loop from element i on.  failAt is the index of the Write that
\* returns an error (0: none); partial tells whether the failing Write had
\* absorbed its bytes.
RECURSIVE WriteLoop(_, _, _, _, _)
WriteLoop(h, data, i, failAt, partial) ==
    IF i > Len(data) THEN [h |-> h, err |-> errNil]
    ELSE IF i = failAt
         THEN [h   |-> IF partial THEN HashWrite(h, ElemBytes(data[i])) ELSE h,
               err |-> errWrite]
         ELSE WriteLoop(HashWrite(h, ElemBytes(data[i])), data, i + 1, failAt, partial)

\* Reset, the write loop, Sum and SetBytes
HashPhase(h, data, failAt, partial) ==
    LET w == WriteLoop(HashReset(h), data, 1, failAt, partial)
    IN  [h |-> w.h, err |-> w.err, hram |-> SetBytes(HashSum(w.h))]

\* ---- Sign ---------------------------------------------------------------
\* randScalarInt: first HalfLen bytes of Sum512(priv.randSrc || message)
SignNonce(message, priv) ==
    SetBytes(SubSeq(Sum512(priv.randSrc \o BinaryWrite(message)), 1, HalfLen))

\* s = randScalarInt + H(R,A,M)*scalar mod Order, stored with SetBigInt
SignResponse(randScalarInt, hramInt, priv) ==
    SetBigInt((hramInt * ToBigInt(priv.scalar) + randScalarInt) % Order)

Sign(message, pub, priv, h, failAt, partial) ==
    LET randScalarInt == SignNonce(message, priv)
        R  == ScalarMul(Base, randScalarInt)
        hp == HashPhase(h, ChallengeData(R, pub.A, message), failAt, partial)
    IN  IF ~IsOnCurve(R)
        THEN [sig |-> ZeroSignature, err |-> errNotOnCurve, h |-> h]
        ELSE IF hp.err # errNil
        THEN [sig |-> ZeroSignature, err |-> hp.err, h |-> hp.h]
        ELSE [sig |-> [R |-> R, S |-> SignResponse(randScalarInt, hp.hram, priv)],
              err |-> errNil, h |-> hp.h]

\* ---- Verify -------------------------------------------------------------
\* a verification that leaves the cofactor out
bCofactor_Unit == ToBigInt(1)

\* curveParams.Cofactor.ToBigInt(&bCofactor)
bCofactor == ToBigInt(Cofactor)

\* lhs = cofactor*S*Base
VerifyLhs(sig) ==
    ScalarMul(ScalarMul(Base, ToBigIntRegular(sig.S)), bCofactor)

\* rhs = cofactor*(R + H(R,A,M)*A)
VerifyRhs(sig, pub, hram) ==
    ScalarMul(Add(ScalarMul(pub.A, hram), sig.R), bCofactor)

\* the comparison with && in place of ||
PointsDiffer_And(lhs, rhs) == lhs[1] # rhs[1] /\ lhs[2] # rhs[2]

\* !lhs.X.Equal(&rhs.X) || !lhs.Y.Equal(&rhs.Y)
PointsDiffer(lhs, rhs) == lhs[1] # rhs[1] \/ lhs[2] # rhs[2]

\* the part of Verify after the challenge hash
VerifyDecide(sig, pub, hram) ==
    LET lhs == VerifyLhs(sig)
        rhs == VerifyRhs(sig, pub, hram)
    IN  IF ~IsOnCurve(lhs) THEN [ok |-> FALSE, err |-> errNotOnCurve]
        ELSE IF ~IsOnCurve(rhs) THEN [ok |-> FALSE, err |-> errNotOnCurve]
        ELSE IF PointsDiffer(lhs, rhs) THEN [ok |-> FALSE, err |-> errNil]
        ELSE [ok |-> TRUE, err |-> errNil]

\* Verify without the test of A
VerifyKeyOk_Skipped(pub) == TRUE

\* the check Verify makes before it touches the hash
VerifyKeyOk(pub) == IsOnCurve(pub.A)

Verify(sig, message, pub, h, failAt, partial) ==
    LET hp == HashPhase(h, ChallengeData(sig.R, pub.A, message), failAt, partial)
        d  == VerifyDecide(sig, pub, hp.hram)
    IN  IF ~VerifyKeyOk(pub)
        THEN [ok |-> FALSE, err |-> errNotOnCurve, h |-> h]
        ELSE IF hp.err # errNil
        THEN [ok |-> FALSE, err |-> hp.err, h |-> hp.h]
        ELSE [ok |-> d.ok, err |-> d.err, h |-> hp.h]

\* ---- the program state and its callers ----------------------------------
\* hfunc   the hash handle that every PublicKey made by New refers to
\* key     the key pair returned by the latest New (NoKey before the first)
\* keyLog  what the New calls so far took and returned
\* sigLog  what the Sign calls that returned a nil error took and returned
\* last    the latest call: its inputs and what it returned
VARIABLES hfunc, key, keyLog, sigLog, last

\* Concurrent callers of Sign and Verify on one PublicKey value:
\* mode    how the callers treat the handle: "mutex" (every call is made
\*         under one external lock), "fresh" (every caller passes a
\*         PublicKey with a hash instance of its own), "none" (neither)
\* mutex   the holder of the external lock, 0 when it is free
\* hown    the hash instances of the callers in mode "fresh"
\* procs   per caller: the call it is in, its position in it and its locals
VARIABLES mode, mutex, hown, procs

seqvars  == <<key, keyLog, sigLog, last>>
concvars == <<mode, mutex, hown, procs>>
vars     == <<hfunc, key, keyLog, sigLog, last, mode, mutex, hown, procs>>

Seeds    == { <<s, 2>> : s \in 0..MaxSeed }
Messages == 0..MaxMsg

\* how the hash behaves during one call, <<failAt, partial>>: every Write
\* succeeds, or the third Write fails after absorbing its bytes
NoFault  == <<0, FALSE>>
Faults   == { NoFault, <<3, TRUE>> }

NoPriv == [randSrc |-> <<>>, scalar |-> 0]
NoKey  == [seed |-> <<>>, A |-> ZeroPoint, priv |-> NoPriv]

\* points a caller may put into a PublicKey or a Signature
Neutral          == <<0, 1>>
SmallOrderPoints == { <<0, 1>>, <<0, 96>>, <<22, 0>>, <<42, 46>> }
OffCurveA        == <<0, 33>>
OffCurvePoints   == { OffCurveA, <<2, 3>> }

\* what a caller may pass to Verify besides signatures made by Sign:
\* a key that is not on the curve, an R that is not on the curve, and
\* well-formed points with an arbitrary S
VerifyInputs ==
    { [R |-> Neutral, S |-> SetBigInt(0), A |-> A] : A \in OffCurvePoints }
    \cup { [R |-> R, S |-> SetBigInt(0), A |-> A] :
              R \in OffCurvePoints, A \in {Neutral, Base} }
    \cup { [R |-> R, S |-> SetBigInt(sv), A |-> ScalarMul(Base, 2)] :
              R \in {Neutral, Base}, sv \in {0, 1, 5} }

Procs == 1..NumProcs

IdleProc == [pc |-> "idle", op |-> "none", m |-> 0, sig |-> ZeroSignature,
             A |-> ZeroPoint, rand |-> 0, i |-> 0, hram |-> 0,
             ok |-> FALSE, err |-> errNil, round |-> 0]

Call(op, kind, seed, m, A, priv, sig, failAt, ok, err) ==
    [op |-> op, kind |-> kind, seed |-> seed, m |-> m, A |-> A, priv |-> priv,
     sig |-> sig, failAt |-> failAt, ok |-> ok, err |-> err]

Init ==
    /\ hfunc \in { [hid |-> i, buf |-> <<>>] : i \in HashIds }
    /\ key = NoKey
    /\ keyLog = {}
    /\ sigLog = {}
    /\ last = Call("none", "none", <<>>, 0, ZeroPoint, NoPriv, ZeroSignature, 0, FALSE, errNil)
    /\ mode = "none"
    /\ mutex = 0
    /\ hown = [p \in Procs |-> [hid |-> hfunc.hid, buf |-> <<>>]]
    /\ procs = [p \in Procs |-> IdleProc]

\* pub, priv := New(seed, hfunc)
CallNew(seed) ==
    /\ \E k \in {New(seed)} :
          LET priv == [randSrc |-> k.randSrc, scalar |-> k.scalar]
          IN  /\ key' = [seed |-> seed, A |-> k.A, priv |-> priv]
              /\ keyLog' = keyLog \cup { [seed |-> seed, A |-> k.A, priv |-> priv] }
              /\ last' = Call("New", "new", seed, 0, k.A, priv, ZeroSignature, 0, TRUE, errNil)
    /\ UNCHANGED <<hfunc, sigLog>>
    /\ UNCHANGED concvars

\* the bytes a completed challenge hash of (R, A, m) leaves in the handle
ChallengeBytes(R, A, m) ==
    ElemBytes(Raw(R[1])) \o ElemBytes(Raw(R[2])) \o ElemBytes(Raw(A[1]))
        \o ElemBytes(Raw(A[2])) \o ElemBytes(m)

\* m was signed with the latest key pair before, and other calls have used
\* the handle since
Resign(m) ==
    \E e \in sigLog : /\ e.m = m /\ e.A = key.A /\ e.priv = key.priv
                       /\ hfunc.buf # ChallengeBytes(e.sig.R, e.A, e.m)

\* sig, err := Sign(m, pub, priv) with the latest key pair
CallSign(m, fault) ==
    /\ key # NoKey
    /\ Cardinality({ <<e.seed, e.m>> : e \in sigLog } \cup { <<key.seed, m>> }) <= MaxSigned
    /\ \E r \in {Sign(m, [A |-> key.A], key.priv, hfunc, fault[1], fault[2])} :
          /\ hfunc' = r.h
          /\ sigLog' = IF r.err = errNil
                       THEN sigLog \cup { [seed |-> key.seed, m |-> m, A |-> key.A,
                                           priv |-> key.priv, sig |-> r.sig] }
                       ELSE sigLog
          /\ last' = Call("Sign", IF Resign(m) THEN "resign" ELSE "sign", key.seed, m,
                          key.A, key.priv, r.sig, fault[1], r.err = errNil, r.err)
    /\ UNCHANGED <<key, keyLog>>
    /\ UNCHANGED concvars

\* ok, err := Verify(sig, m, pub)
DoVerify(kind, sig, m, A, fault) ==
    /\ \E r \in {Verify(sig, m, [A |-> A], hfunc, fault[1], fault[2])} :
          /\ hfunc' = r.h
          /\ last' = Call("Verify", kind, <<>>, m, A, NoPriv, sig, fault[1], r.ok, r.err)
    /\ UNCHANGED <<key, keyLog, sigLog>>
    /\ UNCHANGED concvars

\* Verify on a signature that Sign returned for the same message and key
VerifySigned(e, fault) ==
    DoVerify("signed", e.sig, e.m, e.A, fault)

\* the challenge of (R, A, m) as a caller computes it with an own handle of
\* the same algorithm
CallerChallenge(R, A, m) ==
    SetBytes(HashSum([hid |-> hfunc.hid, buf |-> ChallengeBytes(R, A, m)]))

\* a signature with a small-order component T in R: R = nonce*Base + T,
\* S = nonce + challenge*secret mod Order, for the key A = secret*Base
CraftedSig(secret, nonce, T, m) ==
    LET R == Add(ScalarMul(Base, nonce), T)
        c == CallerChallenge(R, ScalarMul(Base, secret), m)
    IN  [R |-> R, S |-> SetBigInt((nonce + c * secret) % Order)]

VerifyCrafted(secret, nonce, T, m) ==
    DoVerify("crafted", CraftedSig(secret, nonce, T, m), m, ScalarMul(Base, secret), NoFault)

\* Verify on whatever else a caller passes
VerifyAny(in, m) ==
    DoVerify("any", [R |-> in.R, S |-> in.S], m, in.A, NoFault)

Next ==
    \/ \E seed \in Seeds : CallNew(seed)
    \/ \E m \in Messages, fault \in Faults : CallSign(m, fault)
    \/ \E e \in sigLog, fault \in Faults : VerifySigned(e, fault)
    \/ \E T \in SmallOrderPoints, m \in Messages : VerifyCrafted(2, 1, T, m)
    \/ \E in \in VerifyInputs, m \in Messages : VerifyAny(in, m)

Spec == Init /\ [][Next]_vars

\* ---- concurrent callers ---------------------------------------------------
\* Sign and Verify take no lock.  Between two accesses of the handle
\* (Reset, each Write, Sum) a call can be overtaken by another call, so a
\* call is split at these accesses; what lies between them works on locals.

\* the handle a caller's PublicKey refers to
HandleOf(p) == IF mode = "fresh" THEN hown[p] ELSE hfunc

SetHandle(p, h) ==
    IF mode = "fresh"
    THEN hown' = [hown EXCEPT ![p] = h] /\ UNCHANGED hfunc
    ELSE hfunc' = h /\ UNCHANGED hown

\* the calls a caller may make: Sign with the key pair, Verify of a
\* well-formed signature, and Verify with a key that is not on the curve
VerifyJobs ==
    { [op |-> "Verify", m |-> 0, sig |-> CraftedSig(2, 1, Neutral, 0), A |-> ScalarMul(Base, 2)],
      [op |-> "Verify", m |-> 1, sig |-> [R |-> Base, S |-> SetBigInt(1)], A |-> OffCurveA] }
Jobs ==
    { [op |-> "Sign", m |-> m, sig |-> ZeroSignature, A |-> key.A] : m \in Messages }
        \cup VerifyJobs

InitCallers(modes) ==
    /\ hfunc = [hid |-> 1, buf |-> <<>>]
    /\ \E k \in {New(<<0, 2>>)} :
          LET priv == [randSrc |-> k.randSrc, scalar |-> k.scalar]
          IN  /\ key = [seed |-> <<0, 2>>, A |-> k.A, priv |-> priv]
              /\ keyLog = { [seed |-> <<0, 2>>, A |-> k.A, priv |-> priv] }
    /\ sigLog = {}
    /\ last = Call("none", "none", <<>>, 0, ZeroPoint, NoPriv, ZeroSignature, 0, FALSE, errNil)
    /\ mode \in modes
    /\ mutex = 0
    /\ hown = [p \in Procs |-> [hid |-> hfunc.hid, buf |-> <<>>]]
    /\ procs = [p \in Procs |-> IdleProc]

\* callers that keep the exclusion the PublicKey asks for
InitConc == InitCallers({"mutex", "fresh"})

\* callers that do not
InitConcFree == InitCallers({"none"})

\* the elements the call of p absorbs
DataOf(pr) == ChallengeData(pr.sig.R, pr.A, pr.m)

\* the call returns: the caller releases the lock it took
Unlock(p) == mutex' = IF mutex = p THEN 0 ELSE mutex

\* Entry of Sign or Verify, up to the Reset: Sign derives the nonce and R
\* and tests R, Verify tests A.  Under "mutex" the caller takes the lock
\* first.
Begin(p, job) ==
    /\ procs[p].pc = "idle"
    /\ procs[p].round < MaxRounds
    /\ mode = "mutex" => mutex = 0
    /\ LET rand == IF job.op = "Sign" THEN SignNonce(job.m, key.priv) ELSE 0
           R    == IF job.op = "Sign" THEN ScalarMul(Base, rand) ELSE job.sig.R
           bad  == IF job.op = "Sign" THEN ~IsOnCurve(R) ELSE ~VerifyKeyOk([A |-> job.A])
           pr   == [procs[p] EXCEPT !.op = job.op, !.m = job.m, !.A = job.A,
                                    !.sig = [R |-> R, S |-> job.sig.S],
                                    !.rand = rand, !.i = 0, !.hram = 0,
                                    !.round = @ + 1]
       IN  IF bad
           THEN /\ procs' = [procs EXCEPT ![p] =
                       [pr EXCEPT !.pc = "done", !.ok = FALSE, !.err = errNotOnCurve,
                                  !.sig = IF job.op = "Sign" THEN ZeroSignature ELSE @]]
                /\ UNCHANGED mutex
           ELSE /\ procs' = [procs EXCEPT ![p] = [pr EXCEPT !.pc = "reset"]]
                /\ mutex' = IF mode = "mutex" THEN p ELSE mutex
    /\ UNCHANGED <<hfunc, hown, mode>>
    /\ UNCHANGED seqvars

\* pub.HFunc.Reset()
Reset(p) ==
    /\ procs[p].pc = "reset"
    /\ SetHandle(p, HashReset(HandleOf(p)))
    /\ procs' = [procs EXCEPT ![p].pc = "write", ![p].i = 1]
    /\ UNCHANGED <<mode, mutex>>
    /\ UNCHANGED seqvars

\* pub.HFunc.Write(bytes[:]) of element i returns a nil error
Write(p) ==
    /\ procs[p].pc = "write"
    /\ SetHandle(p, HashWrite(HandleOf(p), ElemBytes(DataOf(procs[p])[procs[p].i])))
    /\ procs' = [procs EXCEPT ![p].i = @ + 1,
                              ![p].pc = IF procs[p].i = Len(DataOf(procs[p]))
                                        THEN "sum" ELSE "write"]
    /\ UNCHANGED <<mode, mutex>>
    /\ UNCHANGED seqvars

\* pub.HFunc.Write(bytes[:]) returns an error: the call returns it
WriteFail(p) ==
    /\ procs[p].pc = "write"
    /\ procs' = [procs EXCEPT ![p].pc = "done", ![p].ok = FALSE, ![p].err = errWrite,
                              ![p].sig = IF procs[p].op = "Sign" THEN ZeroSignature ELSE @]
    /\ Unlock(p)
    /\ UNCHANGED <<hfunc, hown, mode>>
    /\ UNCHANGED seqvars

\* hramBin := pub.HFunc.Sum([]byte{}); hramInt.SetBytes(hramBin)
Sum(p) ==
    /\ procs[p].pc = "sum"
    /\ procs' = [procs EXCEPT ![p].hram = SetBytes(HashSum(HandleOf(p))),
                              ![p].pc = "finish"]
    /\ UNCHANGED <<hfunc, hown, mode, mutex>>
    /\ UNCHANGED seqvars

\* the rest of the call: Sign computes S, Verify decides
Finish(p) ==
    /\ procs[p].pc = "finish"
    /\ LET pr == procs[p]
           d  == VerifyDecide(pr.sig, [A |-> pr.A], pr.hram)
       IN  procs' = [procs EXCEPT ![p] =
              IF pr.op = "Sign"
              THEN [pr EXCEPT !.pc = "done", !.ok = TRUE, !.err = errNil,
                              !.sig = [R |-> pr.sig.R,
                                       S |-> SignResponse(pr.rand, pr.hram, key.priv)]]
              ELSE [pr EXCEPT !.pc = "done", !.ok = d.ok, !.err = d.err]]
    /\ Unlock(p)
    /\ UNCHANGED <<hfunc, hown, mode>>
    /\ UNCHANGED seqvars

\* the caller has taken the results; the locals of the call are gone
Return(p) ==
    /\ procs[p].pc = "done"
    /\ procs' = [procs EXCEPT ![p] = [IdleProc EXCEPT !.round = procs[p].round]]
    /\ UNCHANGED <<hfunc, hown, mode, mutex>>
    /\ UNCHANGED seqvars

NextConc ==
    \E p \in Procs :
        \/ \E job \in Jobs : Begin(p, job)
        \/ Reset(p)
        \/ Write(p)
        \/ WriteFail(p)
        \/ Sum(p)
        \/ Finish(p)
        \/ Return(p)

SpecConc == InitConc /\ [][NextConc]_vars

SpecConcFree == InitConcFree /\ [][NextConc]_vars

\* ======================= properties ======================================

\* the latest call was Verify on a signature that Sign returned for the same
\* message and key, and no Write failed in it
RoundTripCall ==
    /\ last.op = "Verify"
    /\ last.failAt = 0
    /\ \E e \in sigLog : e.sig = last.sig /\ e.m = last.m /\ e.A = last.A

\* C1: round trip.  Sign returns a nil error when no Write fails, and Verify
\* of a signature returned by Sign, for the same message and the key pair of
\* New, returns (true, nil).
C1_RoundTrip ==
    /\ (last.op = "Sign" /\ last.failAt = 0) => last.err = errNil
    /\ RoundTripCall => (last.ok /\ last.err = errNil)

\* C2: malformed-key rejection.  Verify with a public key that is not on the
\* curve returns (false, errNotOnCurve), whatever the signature, the message
\* and the behaviour of the hash.
C2_MalformedKeyRejected ==
    (last.op = "Verify" /\ ~IsOnCurve(last.A))
        => (last.ok = FALSE /\ last.err = errNotOnCurve)

C2_Witness == last.op = "Verify" /\ ~IsOnCurve(last.A)

\* the two sides of the cofactor-cleared equation for the latest call
EqLhs == ScalarMul(ScalarMul(Base, FromMont(last.sig.S)), Cofactor)
EqRhs == ScalarMul(Add(ScalarMul(last.A, CallerChallenge(last.sig.R, last.A, last.m)),
                       last.sig.R), Cofactor)

\* C3: when A is on the curve, no Write fails and both sides of the
\* cofactor-cleared equation are on the curve, Verify returns (true, nil) if
\* the two sides have equal x and equal y, and (false, nil) otherwise.
C3_DecisionIsEquation ==
    (/\ last.op = "Verify" /\ IsOnCurve(last.A) /\ last.failAt = 0
     /\ IsOnCurve(EqLhs) /\ IsOnCurve(EqRhs))
        => (/\ last.err = errNil
            /\ last.ok = (EqLhs[1] = EqRhs[1] /\ EqLhs[2] = EqRhs[2]))

\* a mismatch in exactly one coordinate, answered by (false, nil)
C3_Witness ==
    /\ last.op = "Verify" /\ IsOnCurve(last.A) /\ last.failAt = 0
    /\ IsOnCurve(EqLhs) /\ IsOnCurve(EqRhs)
    /\ EqLhs[2] = EqRhs[2] /\ EqLhs[1] # EqRhs[1]
    /\ last.ok = FALSE /\ last.err = errNil

\* C4: determinism across any call history.  New returns the same key pair
\* for the same seed on every call, and Sign returns the same signature for
\* the same message and key pair on every call, whatever earlier calls left
\* in the hash handle.
C4_Deterministic ==
    /\ \A e1, e2 \in keyLog : e1.seed = e2.seed => e1 = e2
    /\ \A e1, e2 \in sigLog :
          (e1.m = e2.m /\ e1.A = e2.A /\ e1.priv = e2.priv) => e1.sig = e2.sig

\* a message signed again after other calls used the handle
C4_Witness == last.op = "Sign" /\ last.kind = "resign" /\ last.ok

\* the little-endian integer of the clamped first HalfLen digest bytes
ClampedScalar(seed) ==
    LET h0 == Sum512(seed)
        h1 == [h0 EXCEPT ![1] = And0xF8(@)]
        h2 == [h1 EXCEPT ![HalfLen] = Or0x40(And0x7F(@))]
    IN  LittleEndian(SubSeq(h2, 1, HalfLen))

\* C5: clamping invariant.  The scalar New stores in the PrivateKey is the
\* little-endian integer of the clamped first HalfLen digest bytes: its top
\* bit is clear, the bit below is set and its bottom three bits are zero.
C5_ClampedScalarStored ==
    \A e \in keyLog :
        /\ ToBigInt(e.priv.scalar) = ClampedScalar(e.seed)
        /\ ToBigInt(e.priv.scalar) % 8 = 0
        /\ ToBigInt(e.priv.scalar) \div (2 ^ (8 * HalfLen - 2)) = 1

\* C6: cofactor property.  A signature whose R carries a small-order
\* component, with S = nonce + challenge*secret mod Order for the key
\* secret*Base, is accepted with (true, nil), although S*Base differs from
\* R + challenge*A when R is outside the prime-order subgroup.
C6_SmallOrderAccepted ==
    (last.op = "Verify" /\ last.kind = "crafted")
        => (/\ last.ok /\ last.err = errNil
            /\ ScalarMul(last.sig.R, Order) # Neutral
                  => ScalarMul(Base, FromMont(last.sig.S))
                       # Add(ScalarMul(last.A, CallerChallenge(last.sig.R, last.A, last.m)),
                             last.sig.R))

C6_Witness ==
    /\ last.op = "Verify" /\ last.kind = "crafted" /\ last.ok
    /\ ScalarMul(last.sig.R, Order) # Neutral

\* C8: key-pair consistency.  The public point of New is the stored secret
\* scalar, as Sign reads it back, times the base point.
C8_KeyPairConsistent ==
    \A e \in keyLog : e.A = ScalarMul(Base, ToBigInt(e.priv.scalar))

\* C9: the S field of a signature returned by Sign holds
\* (nonce + challenge*secretScalar) mod Order as its raw value.
C9_ResponseCanonical ==
    \A e \in sigLog :
        e.sig.S = (SignNonce(e.m, e.priv)
                   + CallerChallenge(e.sig.R, e.A, e.m) * ToBigInt(e.priv.scalar)) % Order

\* C10: Verify with an R that is not on the curve (A on the curve, no Write
\* failing) returns (false, errNotOnCurve).
C10_OffCurveRRejected ==
    (/\ last.op = "Verify" /\ IsOnCurve(last.A) /\ ~IsOnCurve(last.sig.R)
     /\ last.failAt = 0)
        => (last.ok = FALSE /\ last.err = errNotOnCurve)

\* what the call of p returns when it runs alone on a fresh handle
AloneSign(pr) ==
    Sign(pr.m, [A |-> pr.A], key.priv, [hid |-> hfunc.hid, buf |-> <<>>], 0, FALSE)
AloneVerify(pr) ==
    Verify(pr.sig, pr.m, [A |-> pr.A], [hid |-> hfunc.hid, buf |-> <<>>], 0, FALSE)

\* the call of p has finalized its challenge
Hashed(pr) == pr.pc = "finish" \/ (pr.pc = "done" /\ pr.err # errWrite /\ pr.i > 0)

\* C7: when the calls on one PublicKey value are serialized by an external
\* lock, or every caller has a hash instance of its own, the challenge a call
\* finalizes is the hash of exactly its own five encodings absorbed after
\* its own Reset, and the call returns what it returns when run alone.
C7_IsolatedUnderExclusion ==
    mode \in {"mutex", "fresh"} =>
        \A p \in Procs :
            /\ Hashed(procs[p]) =>
                  procs[p].hram = CallerChallenge(procs[p].sig.R, procs[p].A, procs[p].m)
            /\ (procs[p].pc = "done" /\ procs[p].err # errWrite) =>
                  IF procs[p].op = "Sign"
                  THEN /\ procs[p].sig = AloneSign(procs[p]).sig
                       /\ procs[p].err = AloneSign(procs[p]).err
                  ELSE /\ procs[p].ok = AloneVerify(procs[p]).ok
                       /\ procs[p].err = AloneVerify(procs[p]).err

\* two callers under the lock have both completed a call that hashed
\* different data
C7_Witness ==
    /\ mode = "mutex"
    /\ \A p \in Procs : procs[p].pc = "done" /\ procs[p].err = errNil /\ procs[p].i > 0
    /\ DataOf(procs[1]) # DataOf(procs[2])

\* the same isolation without the lock and without own hash instances
C7_IsolatedWithoutExclusion ==
    mode = "none" =>
        \A p \in Procs :
            Hashed(procs[p]) =>
                procs[p].hram = CallerChallenge(procs[p].sig.R, procs[p].A, procs[p].m)

====
